---- MODULE Spec2Model ----
(***************************************************************************)
(* Dashboard Harga Komoditas (src/app.py): the user input store            *)
(* (data_input.csv), the historical loader, the combined view and its two  *)
(* filters, and the render pass main().                                    *)
(*                                                                         *)
(* Text is a sequence of one-character strings, so that what to_csv writes *)
(* and what read_csv infers from it are computed, not assumed.  A cell of  *)
(* a DataFrame is a record tagged with its Python type.                    *)
(***************************************************************************)
EXTENDS Integers, Sequences, FiniteSets, TLC

\* ------------------------------------------------------------------ bounds
MaxSrcLen == 2       \* characters typed into the "Sumber" text input
MaxPrice == 1        \* number_input steps clicked: Harga = steps * PriceStep
MaxDay == 2          \* calendar dates are days 1..MaxDay of January 2026
MaxStoreRows == 3    \* rows in data_input.csv, single-writer store runs
MaxRaceRows == 3     \* rows in data_input.csv, two-session runs
MaxMainRows == 2     \* rows in data_input.csv, render-pass runs
MaxCells == 4        \* price cells of the two monthly sheets together

\* number_input("Harga", min_value=0.0, step=100.0)
PriceStep == 100

\* -------------------------------------------------------------------- text
DigitChars == <<"0", "1", "2", "3", "4", "5", "6", "7", "8", "9">>

IsDigit(c) == \E i \in 1..10 : DigitChars[i] = c

DigitVal(c) == (CHOOSE i \in 1..10 : DigitChars[i] = c) - 1

RECURSIVE NatToText(_)
NatToText(n) ==
    IF n < 10 THEN <<DigitChars[n + 1]>>
    ELSE NatToText(n \div 10) \o <<DigitChars[(n % 10) + 1]>>

RECURSIVE TextToNat(_)
TextToNat(t) ==
    IF t = <<>> THEN 0
    ELSE 10 * TextToNat(SubSeq(t, 1, Len(t) - 1)) + DigitVal(t[Len(t)])

AllDigits(t) == Len(t) > 0 /\ \A i \in 1..Len(t) : IsDigit(t[i])

\* str.strip(): leading and trailing blanks removed.
RECURSIVE Strip(_)
Strip(s) ==
    IF s = <<>> THEN s
    ELSE IF Head(s) = " " THEN Strip(Tail(s))
    ELSE IF s[Len(s)] = " " THEN Strip(SubSeq(s, 1, Len(s) - 1))
    ELSE s

\* ------------------------------------------------------------------- cells
StrCell(s) == [k |-> "str", s |-> s]
IntCell(n) == [k |-> "int", n |-> n]
FloatCell(n) == [k |-> "float", n |-> n]     \* an integral float n.0
DateCell(d) == [k |-> "date", d |-> d]
NaN == [k |-> "nan"]

IsNumber(c) == c.k \in {"int", "float"}

\* Python's ==, with a missing value equal to a missing value (DataFrame.equals).
CellEq(a, b) ==
    IF IsNumber(a) /\ IsNumber(b) THEN a.n = b.n ELSE a = b

Columns == {"Sumber", "Komoditi", "Tingkat", "Provinsi", "Tanggal", "Harga"}

RowEq(r, q) == \A c \in Columns : CellEq(r[c], q[c])

\* --------------------------------------------------------------- CSV store
\* data_input.csv: whether os.path.exists(INPUT_CSV), and the data lines under
\* the header, one record of field texts per line.
NoFile == [exists |-> FALSE, lines |-> <<>>]

FileOf(lines) == [exists |-> TRUE, lines |-> lines]

\* The values pandas.read_csv reads as missing (its default na_values).
NaValues ==
    { <<>>, <<"N", "A">>, <<"N", "a", "N">>, <<"n", "a", "n">>,
      <<"N", "/", "A">>, <<"n", "/", "a">>, <<"N", "U", "L", "L">>,
      <<"n", "u", "l", "l">>, <<"N", "o", "n", "e">>, <<"<", "N", "A", ">">>,
      <<"#", "N", "A">>, <<"#", "N", "/", "A">>, <<"-", "N", "a", "N">>,
      <<"-", "n", "a", "n">> }

IsNaText(t) == t \in NaValues

Unsigned(t) == IF t # <<>> /\ Head(t) \in {"-", "+"} THEN Tail(t) ELSE t

Signed(t, n) == IF t # <<>> /\ Head(t) = "-" THEN 0 - n ELSE n

IsIntText(t) == AllDigits(Unsigned(t))

DotAt(t) == {i \in 1..Len(t) : t[i] = "."}

\* A decimal with a whole value ("100.0"): prices are whole multiples of
\* PriceStep, so no other fraction is ever written.
IsFloatText(t) ==
    LET u == Unsigned(t) IN
    /\ Cardinality(DotAt(u)) = 1
    /\ LET d == CHOOSE i \in DotAt(u) : TRUE IN
       /\ AllDigits(SubSeq(u, 1, d - 1))
       /\ \A i \in (d + 1)..Len(u) : u[i] = "0"

NumberOfText(t) ==
    LET u == Unsigned(t) IN
    IF AllDigits(u) THEN Signed(t, TextToNat(u))
    ELSE Signed(t, TextToNat(SubSeq(u, 1, (CHOOSE i \in DotAt(u) : TRUE) - 1)))

NumberText(n) == IF n < 0 THEN <<"-">> \o NatToText(0 - n) ELSE NatToText(n)

\* datetime.date.isoformat() of day d of January 2026.
DatePrefix == <<"2", "0", "2", "6", "-", "0", "1", "-">>

DateText(d) ==
    DatePrefix \o (IF d < 10 THEN <<"0">> \o NatToText(d) ELSE NatToText(d))

IsDateText(t) ==
    /\ Len(t) = Len(DatePrefix) + 2
    /\ SubSeq(t, 1, Len(DatePrefix)) = DatePrefix
    /\ AllDigits(SubSeq(t, Len(DatePrefix) + 1, Len(t)))

\* DataFrame.to_csv writes each value with str(); a missing value as "".
FormatCell(c) ==
    CASE c.k = "str" -> c.s
      [] c.k = "int" -> NumberText(c.n)
      [] c.k = "float" -> NumberText(c.n) \o <<".", "0">>
      [] c.k = "date" -> DateText(c.d)
      [] c.k = "nan" -> <<>>

FormatRow(r) == [c \in Columns |-> FormatCell(r[c])]

to_csv(df) == FileOf([i \in 1..Len(df) |-> FormatRow(df[i])])

\* read_csv infers one dtype per column from all of its texts: int64 when
\* every text is an integer, float64 when every text is a number or missing,
\* otherwise object, with the texts kept as strings.
ParseColumn(texts) ==
    LET idx == 1..Len(texts)
        present == {i \in idx : ~IsNaText(texts[i])}
        allInt == \A i \in present : IsIntText(texts[i])
        allNum == \A i \in present : IsIntText(texts[i]) \/ IsFloatText(texts[i])
    IN  [i \in idx |->
            IF i \notin present THEN NaN
            ELSE IF allInt /\ present = idx THEN IntCell(NumberOfText(texts[i]))
            ELSE IF allNum THEN FloatCell(NumberOfText(texts[i]))
            ELSE StrCell(texts[i])]

\* parse_dates=["Tanggal"], then .dt.date.
ParseDateColumn(texts) ==
    [i \in 1..Len(texts) |->
        IF IsDateText(texts[i])
        THEN DateCell(TextToNat(SubSeq(texts[i], Len(DatePrefix) + 1, Len(texts[i]))))
        ELSE NaN]

ColumnTexts(lines, c) == [i \in 1..Len(lines) |-> lines[i][c]]

EmptyFrame == <<>>

load_input_data(file) ==
    IF ~file.exists THEN EmptyFrame
    ELSE LET col == [c \in Columns |->
                        IF c = "Tanggal" THEN ParseDateColumn(ColumnTexts(file.lines, c))
                        ELSE ParseColumn(ColumnTexts(file.lines, c))]
         IN  [i \in 1..Len(file.lines) |-> [c \in Columns |-> col[c][i]]]

\* append_input_row, lines 58-59: the frame read at line 57 with the row
\* added at the end, written over the whole file.
rewrite_all(df, row) == to_csv(df \o <<row>>)

append_input_row(file, row) == rewrite_all(load_input_data(file), row)

\* ------------------------------------------------------------ input form
Chars == {" ", "1", "A"}

RECURSIVE TextsUpTo(_)
TextsUpTo(n) ==
    IF n = 0 THEN {<<>>}
    ELSE LET shorter == TextsUpTo(n - 1)
         IN  shorter \cup {Append(t, c) : t \in {u \in shorter : Len(u) = n - 1}, c \in Chars}

\* What can be typed into st.text_input("Sumber").
RawSources == TextsUpTo(MaxSrcLen)

\* load_choice(): the reference lists of the "choice" sheet.
komoditi == << <<"B", "e", "r", "a", "s">>, <<"G", "u", "l", "a">> >>
tingkatan == << <<"E", "c", "e", "r", "a", "n">> >>
provinsi == << <<"K", "a", "l", "b", "a", "r">> >>

Range(seq) == {seq[i] : i \in 1..Len(seq)}

Days == 1..MaxDay
Prices == {n * PriceStep : n \in 0..MaxPrice}

\* main, lines 96-103: the row built from the form's widgets.
FormRow(sumber_val, komoditi_val, tingkat_val, provinsi_val, tanggal_val, harga_val) ==
    [Sumber |-> StrCell(Strip(sumber_val)),
     Komoditi |-> StrCell(komoditi_val),
     Tingkat |-> StrCell(tingkat_val),
     Provinsi |-> StrCell(provinsi_val),
     Tanggal |-> DateCell(tanggal_val),
     Harga |-> FloatCell(harga_val)]

FormRows(sources) ==
    {FormRow(s, k, t, p, d, h) :
        s \in sources, k \in Range(komoditi), t \in Range(tingkatan),
        p \in Range(provinsi), d \in Days, h \in Prices}

\* ------------------------------------------------------ historical loader
BaseCols == {" ", "Komoditi", "Tingkat", "Prov/Kab/Kota"}

\* A monthly sheet as pd.read_excel returns it: which metadata columns it has,
\* one metadata record per entity row, the labels of its pd.Timestamp columns
\* and the price cell of every entity row under every such column.  Columns
\* that are neither are dropped by the selection at line 31.
Sheet(base, meta, dates, cells) ==
    [base |-> base, meta |-> meta, dates |-> dates, cells |-> cells]

\* Lines 28-33: one row per entity row and date column, column after column.
melt(sh) ==
    LET e == Len(sh.meta)
        d == Len(sh.dates)
    IN  [n \in 1..(e * d) |->
            LET j == ((n - 1) \div e) + 1
                i == ((n - 1) % e) + 1
            IN  [c \in BaseCols \cup {"Tanggal", "Harga"} |->
                    IF c = "Tanggal" THEN DateCell(sh.dates[j])
                    ELSE IF c = "Harga" THEN sh.cells[i][j]
                    ELSE IF c \in sh.base THEN sh.meta[i][c]
                    ELSE NaN]]

\* pd.to_numeric(errors="ignore"): text that is no number stays in the column.
to_numeric_keep(c) ==
    IF IsNumber(c) THEN FloatCell(c.n)
    ELSE IF c.k = "str" /\ (IsIntText(c.s) \/ IsFloatText(c.s)) THEN FloatCell(NumberOfText(c.s))
    ELSE c

\* Line 37: pd.to_numeric(errors="coerce").
to_numeric(c) ==
    IF IsNumber(c) THEN FloatCell(c.n)
    ELSE IF c.k = "str" /\ (IsIntText(c.s) \/ IsFloatText(c.s)) THEN FloatCell(NumberOfText(c.s))
    ELSE NaN

\* Line 36 and line 38: dropna(subset=["Harga"]).
dropna_Harga(frame) ==
    LET Present(r) == r.Harga # NaN IN SelectSeq(frame, Present)

\* Lines 39-42: the canonical column names, dates at day granularity.
rename(r) ==
    [Sumber |-> r[" "], Komoditi |-> r.Komoditi, Tingkat |-> r.Tingkat,
     Provinsi |-> r["Prov/Kab/Kota"], Tanggal |-> r.Tanggal, Harga |-> r.Harga]

load_daily_data(ss) ==
    LET frames == melt(ss[1]) \o melt(ss[2])
        kept == dropna_Harga(frames)
        coerced == [n \in 1..Len(kept) |-> [kept[n] EXCEPT !.Harga = to_numeric(kept[n].Harga)]]
        clean == dropna_Harga(coerced)
    IN  [n \in 1..Len(clean) |-> rename(clean[n])]

\* The metadata of the entity rows of a sheet, in sheet order.
EntityMeta(k) ==
    [c \in BaseCols |->
        CASE c = " " -> StrCell(<<"A">>)
          [] c = "Komoditi" -> StrCell(komoditi[((k - 1) % Len(komoditi)) + 1])
          [] c = "Tingkat" -> StrCell(tingkatan[1])
          [] c = "Prov/Kab/Kota" -> StrCell(provinsi[1])]

\* What a price cell of a sheet can hold: a number, a number typed as text,
\* text that is no number, nothing.
PriceCells == {FloatCell(PriceStep), StrCell(<<"1">>), StrCell(<<"-">>), NaN}

SheetsOfShape(e, d) ==
    {Sheet(BaseCols, [k \in 1..e |-> EntityMeta(k)], [j \in 1..d |-> j], cells) :
        cells \in [1..e -> [1..d -> PriceCells]]}

\* Every sheet of at most n price cells; a sheet without date columns or
\* without entity rows has none.
SheetsUpTo(n) ==
    UNION {SheetsOfShape(sz[1], sz[2]) :
              sz \in {x \in (0..MaxCells) \X (0..MaxCells) : x[1] * x[2] <= n}}

CellCount(sh) == Len(sh.meta) * Len(sh.dates)

\* ------------------------------------------------------------------- state
VARIABLES
    csvFile,      \* data_input.csv
    appended,     \* the rows handed to append_input_row so far, in order
    before,       \* load_input_data() as read just before the last append
    sess,         \* per session: where it is inside append_input_row
    writes,       \* number of completed rewrites of data_input.csv
    data_file,    \* os.path.exists(DATA_FILE)
    sheets,       \* the monthly sheets "jan26" and "feb26" of DATA_FILE
    out,          \* what load_daily_data returned
    daily_data,   \* st.cache_data's entry for load_daily_data
    pc,           \* position of the render pass inside main()
    input_data,   \* main's snapshot of the store (line 72)
    submitted,    \* st.form_submit_button("Simpan") of this pass
    row,          \* the row built from the form in this pass
    shown         \* the element the pass rendered last

storeVars == <<csvFile, appended, before>>
raceVars == <<sess, writes>>
loadVars == <<sheets, out>>
mainVars == <<data_file, daily_data, pc, input_data, submitted, row, shown>>
vars == <<storeVars, raceVars, loadVars, mainVars>>

NotLoaded == [loaded |-> FALSE, rows |-> <<>>]

Loaded(rows) == [loaded |-> TRUE, rows |-> rows]

NoRow == [k |-> "none"]
Nothing == [kind |-> "nothing"]

Sessions == {"a", "b"}

IdleSession == [pc |-> "idle", df |-> EmptyFrame, row |-> NoRow, readAt |-> 0, wroteAt |-> 0]

StoreInit ==
    /\ csvFile = NoFile /\ appended = <<>> /\ before = EmptyFrame
    /\ sess = [s \in Sessions |-> IdleSession] /\ writes = 0
    /\ sheets = <<>> /\ out = NotLoaded
    /\ data_file = TRUE /\ daily_data = NotLoaded /\ pc = "idle"
    /\ input_data = EmptyFrame /\ submitted = FALSE /\ row = NoRow /\ shown = Nothing

\* ----------------------------------------------- the store, single writer
\* One whole append_input_row(row) call, nothing else touching the file.
StoreAppend(r) ==
    /\ Len(appended) < MaxStoreRows
    /\ before' = load_input_data(csvFile)
    /\ csvFile' = append_input_row(csvFile, r)
    /\ appended' = Append(appended, r)
    /\ UNCHANGED <<raceVars, loadVars, mainVars>>

StoreNext == \E r \in FormRows(RawSources) : StoreAppend(r)

StoreSpec == StoreInit /\ [][StoreNext]_vars

\* --------------------------------------------- the store, two sessions
\* Rows of the sessions' forms: any source of at most one character.
RaceRows ==
    {FormRow(s, komoditi[1], tingkatan[1], provinsi[1], 1, PriceStep) : s \in TextsUpTo(1)}

Reading == {s \in Sessions : sess[s].pc = "read"}

\* Line 57: df = load_input_data().
AppendRead(s, r) ==
    /\ sess[s].pc # "read"
    /\ writes + Cardinality(Reading) < MaxRaceRows
    /\ sess' = [sess EXCEPT ![s] = [pc |-> "read", df |-> load_input_data(csvFile),
                                    row |-> r, readAt |-> writes, wroteAt |-> 0]]
    /\ UNCHANGED <<csvFile, appended, before, writes, loadVars, mainVars>>

\* A store that takes a lock around the whole append: the write starts from
\* the file as it is now, not from the frame read earlier.
AppendWriteLocked(s) ==
    /\ sess[s].pc = "read"
    /\ csvFile' = append_input_row(csvFile, sess[s].row)
    /\ writes' = writes + 1
    /\ sess' = [sess EXCEPT ![s].pc = "written", ![s].wroteAt = writes + 1]
    /\ UNCHANGED <<appended, before, loadVars, mainVars>>

\* Lines 58-59: concat and df.to_csv(INPUT_CSV), over whatever is there.
AppendWrite(s) ==
    /\ sess[s].pc = "read"
    /\ csvFile' = rewrite_all(sess[s].df, sess[s].row)
    /\ writes' = writes + 1
    /\ sess' = [sess EXCEPT ![s].pc = "written", ![s].wroteAt = writes + 1]
    /\ UNCHANGED <<appended, before, loadVars, mainVars>>

RaceNext ==
    \E s \in Sessions :
        \/ \E r \in RaceRows : AppendRead(s, r)
        \/ AppendWrite(s)

RaceSpec == StoreInit /\ [][RaceNext]_vars

\* ------------------------------------------------- the historical load
LoadInit ==
    /\ \E a \in SheetsUpTo(MaxCells) :
          \E b \in SheetsUpTo(MaxCells - CellCount(a)) : sheets = <<a, b>>
    /\ out = NotLoaded
    /\ csvFile = NoFile /\ appended = <<>> /\ before = EmptyFrame
    /\ sess = [s \in Sessions |-> IdleSession] /\ writes = 0
    /\ data_file = TRUE /\ daily_data = NotLoaded /\ pc = "idle"
    /\ input_data = EmptyFrame /\ submitted = FALSE /\ row = NoRow /\ shown = Nothing

\* One call of load_daily_data() on the two sheets.
Load ==
    /\ ~out.loaded
    /\ out' = Loaded(load_daily_data(sheets))
    /\ UNCHANGED <<sheets, storeVars, raceVars, mainVars>>

LoadSpec == LoadInit /\ [][Load]_vars

\* ------------------------------------------------------ merge and filter
\* A merge that drops a row it has already seen (drop_duplicates).
RECURSIVE concat_dedup(_, _)
concat_dedup(a, b) ==
    IF b = <<>> THEN a
    ELSE IF \E i \in 1..Len(a) : a[i] = Head(b) THEN concat_dedup(a, Tail(b))
    ELSE concat_dedup(Append(a, Head(b)), Tail(b))

\* Lines 113 and 131: pd.concat([daily_data, input_data], ignore_index=True).
concat(a, b) == a \o b

\* A filter that treats "nothing selected" as "no filter".
isin_open(c, selected) == selected = {} \/ (c.k = "str" /\ c.s \in selected)

\* Series.isin(list of strings), for one value.
isin(c, selected) == c.k = "str" /\ c.s \in selected

\* Lines 122-126: the mask of the tabular view.
rekap_mask(r, kom, ting, prov) ==
    isin(r.Komoditi, kom) /\ isin(r.Tingkat, ting) /\ isin(r.Provinsi, prov)

\* A date filter that leaves the end date out.
tren_mask_open_end(r, kom, ting, prov, start_date, end_date) ==
    /\ isin(r.Komoditi, kom) /\ isin(r.Tingkat, ting) /\ isin(r.Provinsi, prov)
    /\ r.Tanggal.k = "date" /\ r.Tanggal.d >= start_date /\ r.Tanggal.d < end_date

\* Lines 157-163: the mask of the trend chart.
tren_mask(r, kom, ting, prov, start_date, end_date) ==
    /\ isin(r.Komoditi, kom) /\ isin(r.Tingkat, ting) /\ isin(r.Provinsi, prov)
    /\ r.Tanggal.k = "date" /\ r.Tanggal.d >= start_date /\ r.Tanggal.d <= end_date

\* combined[mask]: the index labels kept, in order.
RECURSIVE Kept(_, _)
Kept(mask, n) ==
    IF n = 0 THEN <<>>
    ELSE IF mask[n] THEN Append(Kept(mask, n - 1), n) ELSE Kept(mask, n - 1)

Take(frame, index) == [k \in 1..Len(index) |-> frame[index[k]]]

\* sort_values("Tanggal"): ascending by date; ties are kept in frame order
\* here, and nothing below reads the order of ties.
RECURSIVE Insert(_, _)
Insert(sorted, r) ==
    IF sorted = <<>> THEN <<r>>
    ELSE IF sorted[Len(sorted)].Tanggal.d <= r.Tanggal.d THEN Append(sorted, r)
    ELSE Append(Insert(SubSeq(sorted, 1, Len(sorted) - 1), r), sorted[Len(sorted)])

RECURSIVE sort_values(_)
sort_values(frame) ==
    IF frame = <<>> THEN <<>>
    ELSE Insert(sort_values(SubSeq(frame, 1, Len(frame) - 1)), frame[Len(frame)])

MinDate(frame) ==
    CHOOSE d \in {frame[i].Tanggal.d : i \in 1..Len(frame)} :
        \A i \in 1..Len(frame) : d <= frame[i].Tanggal.d

MaxDate(frame) ==
    CHOOSE d \in {frame[i].Tanggal.d : i \in 1..Len(frame)} :
        \A i \in 1..Len(frame) : d >= frame[i].Tanggal.d

\* ------------------------------------------------------- the render pass
\* The workbooks the render passes run on.
FullSheet(e, dates, cells) == Sheet(BaseCols, [k \in 1..e |-> EntityMeta(k)], dates, cells)

MainSheets ==
    { << FullSheet(2, <<1, 2>>, << <<StrCell(<<"1">>), FloatCell(PriceStep)>>,
                                  <<FloatCell(PriceStep), NaN>> >>),
         FullSheet(2, <<>>, << <<>>, <<>> >>) >> }

\* st.date_input("Rentang Tanggal", value=(min_date, max_date)): a range, or
\* a selection the user has not completed.
DateRanges ==
    {dr \in Days \X Days : dr[1] <= dr[2]} \cup {<<a>> : a \in Days} \cup {<<>>}

\* date.today(): the dates of the model run up to today.
today == MaxDay

\* What the form is filled with in these runs: the source typed or blanked,
\* the date left at its default (line 89).
MainRows ==
    {FormRow(s, komoditi[1], tingkatan[1], provinsi[1], today, PriceStep) :
        s \in {<<" ">>, <<"A">>}}

MainInit ==
    /\ csvFile = NoFile /\ data_file \in BOOLEAN /\ sheets \in MainSheets
    /\ daily_data = NotLoaded /\ pc = "idle"
    /\ input_data = EmptyFrame /\ submitted = FALSE /\ row = NoRow /\ shown = Nothing
    /\ appended = <<>> /\ before = EmptyFrame
    /\ sess = [s \in Sessions |-> IdleSession] /\ writes = 0 /\ out = NotLoaded

\* Lines 70-76: the cached loads and the snapshot of the store.
StartPass ==
    /\ daily_data' = IF daily_data.loaded THEN daily_data
                     ELSE Loaded(load_daily_data(sheets))
    /\ input_data' = load_input_data(csvFile)
    /\ shown' = [kind |-> "tabs"]
    /\ pc' = "form"
    /\ UNCHANGED <<csvFile, data_file, submitted, row>>

\* Lines 66-68: st.error and return.
StopPass ==
    /\ shown' = [kind |-> "error"]
    /\ UNCHANGED <<csvFile, data_file, daily_data, pc, input_data, submitted, row>>

\* A pass that goes on without looking for the file.
BeginUnchecked ==
    /\ pc = "idle"
    /\ StartPass
    /\ UNCHANGED <<appended, before, raceVars, loadVars>>

\* Lines 62-76: a render pass starts.
Begin ==
    /\ pc = "idle"
    /\ IF data_file THEN StartPass ELSE StopPass
    /\ UNCHANGED <<appended, before, raceVars, loadVars>>

\* A form handler that refreshes main's snapshot after saving.
FormSubmitRefresh(r) ==
    /\ pc = "form"
    /\ Len(csvFile.lines) < MaxMainRows
    /\ submitted' = TRUE /\ row' = r
    /\ csvFile' = append_input_row(csvFile, r)
    /\ input_data' = load_input_data(csvFile')
    /\ shown' = [kind |-> "saved", table |-> load_input_data(csvFile')]
    /\ pc' = "rekap"
    /\ UNCHANGED <<data_file, daily_data, appended, before, raceVars, loadVars>>

\* Lines 78-108 with "Simpan" pressed: the row is appended, then the saved
\* table is drawn from a fresh read of the store.
FormSubmit(r) ==
    /\ pc = "form"
    /\ Len(csvFile.lines) < MaxMainRows
    /\ submitted' = TRUE /\ row' = r
    /\ csvFile' = append_input_row(csvFile, r)
    /\ shown' = [kind |-> "saved", table |-> load_input_data(csvFile')]
    /\ pc' = "rekap"
    /\ UNCHANGED <<data_file, daily_data, input_data, appended, before, raceVars, loadVars>>

\* Lines 78-108 without a submit.
FormShown ==
    /\ pc = "form"
    /\ submitted' = FALSE /\ row' = NoRow
    /\ shown' = [kind |-> "saved", table |-> load_input_data(csvFile)]
    /\ pc' = "rekap"
    /\ UNCHANGED <<csvFile, data_file, daily_data, input_data, appended, before, raceVars, loadVars>>

\* Lines 110-127: the tabular view.
Rekap(kom_filter, ting_filter, prov_filter) ==
    /\ pc = "rekap"
    /\ LET combined == concat(daily_data.rows, input_data)
           mask == [i \in 1..Len(combined) |->
                       rekap_mask(combined[i], kom_filter, ting_filter, prov_filter)]
           index == Kept(mask, Len(combined))
       IN  shown' = [kind |-> "rekap", combined |-> combined,
                     kom |-> kom_filter, ting |-> ting_filter, prov |-> prov_filter,
                     index |-> index, table |-> sort_values(Take(combined, index))]
    /\ pc' = "tren"
    /\ UNCHANGED <<csvFile, data_file, daily_data, input_data, submitted, row,
                   appended, before, raceVars, loadVars>>

\* Lines 129-182: the trend chart.
Tren(kom_plot, ting_plot, prov_plot, date_range) ==
    /\ pc = "tren"
    /\ LET combined == concat(daily_data.rows, input_data)
           min_date == IF combined # <<>> THEN MinDate(combined) ELSE today
           max_date == IF combined # <<>> THEN MaxDate(combined) ELSE today
           start_date == IF Len(date_range) = 2 THEN date_range[1] ELSE min_date
           end_date == IF Len(date_range) = 2 THEN date_range[2] ELSE max_date
           mask == [i \in 1..Len(combined) |->
                       tren_mask(combined[i], kom_plot, ting_plot, prov_plot,
                                 start_date, end_date)]
           index == Kept(mask, Len(combined))
       IN  shown' = [kind |-> "tren", combined |-> combined,
                     kom |-> kom_plot, ting |-> ting_plot, prov |-> prov_plot,
                     start_date |-> start_date, end_date |-> end_date,
                     index |-> index,
                     chart |-> IF index = <<>> THEN <<"warning">>
                               ELSE sort_values(Take(combined, index))]
    /\ pc' = "idle"
    /\ UNCHANGED <<csvFile, data_file, daily_data, input_data, submitted, row,
                   appended, before, raceVars, loadVars>>

\* DATA_FILE is removed or put back between two passes.
DataFileChange ==
    /\ pc = "idle"
    /\ data_file' = ~data_file
    /\ UNCHANGED <<csvFile, daily_data, pc, input_data, submitted, row, shown,
                   appended, before, raceVars, loadVars>>

MainNext ==
    \/ Begin
    \/ \E r \in MainRows : FormSubmit(r)
    \/ FormShown
    \/ \E k \in SUBSET Range(komoditi), t \in SUBSET Range(tingkatan),
          p \in SUBSET Range(provinsi) : Rekap(k, t, p)
    \/ \E k \in SUBSET Range(komoditi), t \in SUBSET Range(tingkatan),
          p \in SUBSET Range(provinsi), dr \in DateRanges : Tren(k, t, p, dr)
    \/ DataFileChange

MainSpec == MainInit /\ [][MainNext]_vars

\* -------------------------------------------------------------- claims
\* C1: after append_input_row(row) with no concurrent writer, load_input_data()
\* returns one row more than before the append, and its last row equals the
\* appended row field by field.
C1_AppendThenRead ==
    appended # <<>> =>
        LET t == load_input_data(csvFile) IN
        /\ Len(t) = Len(before) + 1
        /\ RowEq(t[Len(t)], appended[Len(appended)])

\* C2: after n appends by a single writer from an absent file the store holds
\* n rows, and the store read before the last append is a prefix of the store
\* read after it: every earlier row unchanged, in the same position.
C2_EarlierRowsUnchanged ==
    LET t == load_input_data(csvFile) IN
    /\ Len(t) = Len(appended)
    /\ appended # <<>> =>
          /\ Len(before) = Len(t) - 1
          /\ \A i \in 1..Len(before) : RowEq(before[i], t[i])

\* Sessions s and t both read the store before either wrote it, s wrote
\* first, t wrote last and nobody wrote since.
Raced(s, t) ==
    /\ s # t
    /\ sess[s].pc = "written" /\ sess[t].pc = "written"
    /\ sess[s].readAt = sess[t].readAt
    /\ sess[s].wroteAt = sess[s].readAt + 1
    /\ sess[t].wroteAt = sess[s].readAt + 2
    /\ writes = sess[t].wroteAt

\* C3: when two sessions both read before either writes, the store ends one
\* row longer than what they read, not two, and that last line is the later
\* writer's row: the earlier writer's append is gone.
C3_LastWriteWins ==
    \A s, t \in Sessions :
        Raced(s, t) =>
            /\ Len(csvFile.lines) = Len(sess[s].df) + 1
            /\ csvFile.lines[Len(csvFile.lines)] = FormatRow(sess[t].row)

C3_RowLost ==
    \E s, t \in Sessions :
        /\ Raced(s, t)
        /\ sess[s].row # sess[t].row
        /\ \A i \in 1..Len(csvFile.lines) : csvFile.lines[i] # FormatRow(sess[s].row)

\* A price cell the loader drops: missing, or text that is no number.
BadPrice(c) == c = NaN \/ (c.k = "str" /\ ~IsIntText(c.s) /\ ~IsFloatText(c.s))

BadCells(sh) ==
    {<<i, j>> \in (1..Len(sh.meta)) \X (1..Len(sh.dates)) : BadPrice(sh.cells[i][j])}

\* C7: load_daily_data returns (entity rows x date columns) rows per sheet,
\* summed over the two sheets, less the cells whose price is missing or is
\* no number; a sheet without date columns adds nothing and is no error.
C7_RowCount ==
    out.loaded =>
        Len(out.rows) =
            (CellCount(sheets[1]) - Cardinality(BadCells(sheets[1])))
            + (CellCount(sheets[2]) - Cardinality(BadCells(sheets[2])))

C7_Witness ==
    /\ out.loaded
    /\ Len(sheets[2].meta) > 0 /\ Len(sheets[2].dates) = 0
    /\ Len(sheets[1].meta) > 1 /\ Len(sheets[1].dates) > 1
    /\ Cardinality(BadCells(sheets[1])) = 1
    /\ \E i \in 1..Len(sheets[1].meta) : sheets[1].cells[i][1] = StrCell(<<"-">>)
    /\ Len(out.rows) = CellCount(sheets[1]) - 1

InView == shown.kind \in {"rekap", "tren"}

EmptyAxis == shown.kom = {} \/ shown.ting = {} \/ shown.prov = {}

\* C4: in the tabular view and in the trend chart alike, an empty selection
\* on the commodity, tier or province axis leaves no row, whatever else is
\* selected and whatever the combined data holds.
C4_EmptySelectionNoRows ==
    (InView /\ EmptyAxis) => shown.index = <<>>

C4_Witness ==
    /\ shown.kind = "tren"
    /\ shown.kom = {} /\ shown.ting # {} /\ shown.prov # {}
    /\ shown.start_date < shown.end_date
    /\ Len(shown.combined) > Len(daily_data.rows)
    /\ shown.index = <<>>

Selected(r) ==
    /\ r.Komoditi.k = "str" /\ r.Komoditi.s \in shown.kom
    /\ r.Tingkat.k = "str" /\ r.Tingkat.s \in shown.ting
    /\ r.Provinsi.k = "str" /\ r.Provinsi.s \in shown.prov

\* C5: in the trend chart a row whose commodity, tier and province are all
\* selected is kept exactly when start_date <= its date <= end_date, both
\* ends included.
C5_DateRangeInclusive ==
    shown.kind = "tren" =>
        \A i \in 1..Len(shown.combined) :
            Selected(shown.combined[i]) =>
                ((i \in Range(shown.index)) <=>
                    (/\ shown.start_date <= shown.combined[i].Tanggal.d
                     /\ shown.combined[i].Tanggal.d <= shown.end_date))

C5_Witness ==
    /\ shown.kind = "tren"
    /\ shown.start_date < shown.end_date
    /\ \E i, j \in Range(shown.index) :
          /\ shown.combined[i].Tanggal.d = shown.start_date
          /\ shown.combined[j].Tanggal.d = shown.end_date
          /\ j > Len(daily_data.rows)

\* C6: the combined view is the historical rows followed by the user rows:
\* as many rows as the two together, each in its place, none merged.
C6_ConcatKeepsAll ==
    InView =>
        /\ Len(shown.combined) = Len(daily_data.rows) + Len(input_data)
        /\ \A i \in 1..Len(daily_data.rows) : shown.combined[i] = daily_data.rows[i]
        /\ \A i \in 1..Len(input_data) :
              shown.combined[Len(daily_data.rows) + i] = input_data[i]

\* A row present in both datasets appears twice.
C6_Witness ==
    /\ shown.kind = "rekap"
    /\ \E i \in 1..Len(daily_data.rows) : \E j \in 1..Len(input_data) :
          /\ daily_data.rows[i] = input_data[j]
          /\ shown.combined[i] = shown.combined[Len(daily_data.rows) + j]

\* The Price Observation schema: six fields present, price a number >= 0.
Observation(r) ==
    /\ r.Sumber.k = "str" /\ r.Komoditi.k = "str"
    /\ r.Tingkat.k = "str" /\ r.Provinsi.k = "str"
    /\ r.Tanggal.k = "date"
    /\ IsNumber(r.Harga) /\ r.Harga.n >= 0

\* C8: every row of the combined view, in every pass, is a Price Observation.
C8_CombinedRowsAreObservations ==
    InView => \A i \in 1..Len(shown.combined) : Observation(shown.combined[i])

\* C9: a pass that starts while DATA_FILE is missing shows the error and
\* ends: nothing is loaded, no form is reached, the store is not written.
C9_MissingFileStopsPass ==
    [][(pc = "idle" /\ ~data_file) =>
          /\ pc' = "idle"
          /\ daily_data' = daily_data /\ input_data' = input_data
          /\ csvFile' = csvFile
          /\ (data_file' = data_file => shown'.kind = "error")]_vars

C9_Witness == pc = "idle" /\ ~data_file /\ shown.kind = "error" /\ csvFile.exists

\* C10: in the pass that handles a submit, the saved table (a fresh read) has
\* the new row while the combined view is built from the snapshot taken
\* before the append and lacks it; a pass starts from a fresh snapshot, so
\* the row is in the next pass's combined view.
C10_SnapshotBeforeAppend ==
    /\ pc = "form" => input_data = load_input_data(csvFile)
    /\ (submitted /\ pc # "form") =>
          /\ Len(load_input_data(csvFile)) = Len(input_data) + 1
          /\ csvFile.lines[Len(csvFile.lines)] = FormatRow(row)
          /\ shown.kind = "saved" => shown.table = load_input_data(csvFile)
          /\ InView =>
                Len(shown.combined) = Len(daily_data.rows) + Len(load_input_data(csvFile)) - 1

C10_Witness ==
    /\ submitted /\ shown.kind = "rekap"
    /\ Len(input_data) > 0
    /\ Len(shown.combined) = Len(daily_data.rows) + Len(csvFile.lines) - 1

====
